---------------------------- MODULE Spec2Model ----------------------------
(***************************************************************************)
(* A model of scrcpygui.py: the Tk variables of ScrcpyController (the      *)
(* Option Set), the command builder _build_scrcpy_command, and the         *)
(* settings store save_settings / load_settings.                           *)
(*                                                                         *)
(* Values.  A Tk variable holds whatever was last written to it.  A value  *)
(* is a tagged pair: <<"bool", b>>, <<"int", n>>, <<"str", s>> or          *)
(* <<"null", 0>> (JSON null / Python None).  TLC strings are atomic, so a  *)
(* command token is kept as a pair <<flag, argument>> whose text is the    *)
(* concatenation flag \o argument.                                         *)
(***************************************************************************)
EXTENDS Integers, Sequences, FiniteSets, TLC

VARIABLES
    opt,        \* the Tk variables of the controller: name -> value held
    command,    \* the last result of _build_scrcpy_command (BuildSpec)
    file,       \* the settings file ~/.scrcpy_gui_settings.json
    pc,         \* where the session is: "init", "running", "exited", "crashed"
    exc,        \* the exception that left the last operation, or "none"
    saved,      \* the Option Set the file now holds was written from, if any
    button,     \* the state of the Connect button: "disabled" or "normal"
    edits,      \* widget writes and clicks on Connect so far (MaxEdits)
    sessions,   \* sessions started so far (bounded by MaxSessions)
    text,       \* the label of the Connect button
    pending,    \* after(3000, _reset_connect_button) timers not yet fired
    clicked,    \* whether the last operation was _launch_scrcpy
    notice,     \* the error box the last operation showed, or "none"
    handed      \* the string the last operation gave to Popen, or ""

vars == <<opt, command, file, pc, exc, saved, button, edits, sessions,
          text, pending, clicked, notice, handed>>

----------------------------------------------------------------------------
(* Values *)

JBool(b) == <<"bool", b>>
JInt(n)  == <<"int", n>>
JStr(s)  == <<"str", s>>
JNull    == <<"null", 0>>

----------------------------------------------------------------------------
(* CONSTANTS of ScrcpyController and the defaults of _initialize_variables *)

default_bit_rate        == 8
default_max_fps         == 60
default_max_size        == "1080"
default_audio_bit_rate  == "128"
default_video_buffer_ms == 0
placeholder             == "Please select the scrcpy executable..."

BoolKeys == {"dark_mode", "fullscreen", "always_on_top", "show_touches",
             "turn_screen_off", "stay_awake", "audio_forward",
             "record_screen", "mirror_camera"}
IntKeys  == {"bit_rate", "max_fps", "video_buffer"}
StrKeys  == {"scrcpy_path", "generated_command", "max_size",
             "record_file_path", "camera_facing", "camera_size",
             "camera_orientation", "video_codec", "audio_codec",
             "v4l2_sink_path", "audio_bit_rate"}
Keys     == BoolKeys \cup IntKeys \cup StrKeys

\* The class of the Tk variable behind each name.
KindOf(k) == IF k \in BoolKeys THEN "BooleanVar"
             ELSE IF k \in IntKeys THEN "IntVar" ELSE "StringVar"

\* _initialize_variables: BooleanVar() is False, StringVar() is "".
Defaults ==
    [k \in Keys |->
        CASE k = "dark_mode"          -> JBool(TRUE)
          [] k = "audio_forward"      -> JBool(TRUE)
          [] k = "generated_command"  -> JStr(placeholder)
          [] k = "bit_rate"           -> JInt(default_bit_rate)
          [] k = "max_fps"            -> JInt(default_max_fps)
          [] k = "max_size"           -> JStr(default_max_size)
          [] k = "camera_facing"      -> JStr("back")
          [] k = "camera_size"        -> JStr("Default")
          [] k = "camera_orientation" -> JStr("Default")
          [] k = "video_codec"        -> JStr("Default")
          [] k = "audio_codec"        -> JStr("Default")
          [] k = "video_buffer"       -> JInt(default_video_buffer_ms)
          [] k = "audio_bit_rate"     -> JStr(default_audio_bit_rate)
          [] k \in BoolKeys           -> JBool(FALSE)
          [] OTHER                    -> JStr("")]

----------------------------------------------------------------------------
(* tkinter.Variable: what set() stores and what get() returns *)

\* Strings Tcl_GetBoolean accepts, and the decimal strings of the model's
\* universe with the integer each denotes (TLC cannot look inside a string).
TclTrue  == {"1", "true", "yes", "on"}
TclFalse == {"0", "false", "no", "off"}
Decimal  == {<<"0", 0>>, <<"1", 1>>, <<"5", 5>>, <<"20", 20>>, <<"64", 64>>,
             <<"96", 96>>, <<"128", 128>>, <<"192", 192>>, <<"256", 256>>,
             <<"720", 720>>, <<"1080", 1080>>, <<"1280", 1280>>,
             <<"1920", 1920>>}
IsDecimal(s) == \E d \in Decimal : d[1] = s
IntOfStr(s)  == (CHOOSE d \in Decimal : d[1] = s)[2]

Ok(v)     == [ok |-> TRUE,  val |-> v,     err |-> "none"]
Raise(e)  == [ok |-> FALSE, val |-> JNull, err |-> e]

\* BooleanVar.set passes the value through getboolean, which takes an int
\* or a string Tcl reads as a boolean; IntVar.set and StringVar.set store
\* anything.
VarSet(kind, v) ==
    IF kind = "BooleanVar"
    THEN CASE v[1] = "bool" -> Ok(v)
           [] v[1] = "int"  -> Ok(JBool(v[2] # 0))
           [] v[1] = "str"  ->
                IF v[2] \in TclTrue THEN Ok(JBool(TRUE))
                ELSE IF v[2] \in TclFalse THEN Ok(JBool(FALSE))
                ELSE IF IsDecimal(v[2]) THEN Ok(JBool(IntOfStr(v[2]) # 0))
                ELSE Raise("TclError")
           [] OTHER         -> Raise("TypeError")
    ELSE Ok(v)

\* get(): BooleanVar -> bool, IntVar -> int (TclError when the value held is
\* no number), StringVar -> str (str() of whatever is held).
VarGet(kind, v) ==
    CASE kind = "BooleanVar" -> Ok(v)
      [] kind = "IntVar" ->
            CASE v[1] = "int"  -> Ok(v)
              [] v[1] = "bool" -> Ok(JInt(IF v[2] THEN 1 ELSE 0))
              [] v[1] = "str"  -> IF IsDecimal(v[2]) THEN Ok(JInt(IntOfStr(v[2])))
                                  ELSE Raise("TclError")
              [] OTHER         -> Raise("TclError")
      [] OTHER ->
            CASE v[1] = "str"  -> Ok(v)
              [] v[1] = "int"  -> Ok(JStr(ToString(v[2])))
              [] v[1] = "bool" -> Ok(JStr(IF v[2] THEN "1" ELSE "0"))
              [] OTHER         -> Ok(JStr("None"))

\* self.<k>.get() on Option Set o, and whether it raises.
GetOk(o, k) == VarGet(KindOf(k), o[k]).ok
Get(o, k)   == VarGet(KindOf(k), o[k]).val[2]

\* Every variable holds a value of its own class's type.
WellTyped(o) ==
    \A k \in Keys : o[k][1] = (IF k \in BoolKeys THEN "bool"
                               ELSE IF k \in IntKeys THEN "int" ELSE "str")

----------------------------------------------------------------------------
(* _build_scrcpy_command *)

\* Mutant: the table counts degrees, not quarter turns.
orientation_map_degrees == {<<"0°", "0">>, <<"90°", "90">>, <<"180°", "180">>,
                            <<"270°", "270">>}

\* str.strip(): the strings of the model's universe that carry leading or
\* trailing whitespace, each with what strip() leaves of it.
Padded   == {<<" ", "">>, <<" out.mp4 ", "out.mp4">>,
             <<" 640x480 ", "640x480">>, <<"/dev/video0 ", "/dev/video0">>}
strip(s) == IF \E p \in Padded : p[1] = s
            THEN (CHOOSE p \in Padded : p[1] = s)[2] ELSE s

orientation_map == {<<"0°", "0">>, <<"90°", "1">>, <<"180°", "2">>,
                    <<"270°", "3">>}

\* A token <<flag, argument>> and its text.
Text(t) == t[1] \o t[2]

\* [tok] if cond else [] -- one "if ...: command.append(...)" of the builder.
When(cond, t) == IF cond THEN <<t>> ELSE <<>>

\* Mutant: the screen tokens are appended in camera mode too (a lost else).
mode_tokens_both(o) ==
    (IF Get(o, "mirror_camera")
     THEN <<  <<"--video-source=camera", "">>,
              <<"--camera-facing=", Get(o, "camera_facing")>>  >>
          \o When(Get(o, "camera_size") # "Default",
                  <<"--camera-size=", strip(Get(o, "camera_size"))>>)
          \o When(\E m \in orientation_map : m[1] = Get(o, "camera_orientation"),
                  <<"--capture-orientation=",
                    (CHOOSE m \in orientation_map :
                        m[1] = Get(o, "camera_orientation"))[2]>>)
     ELSE <<>>)
    \o <<  <<"--video-bit-rate=", ToString(Get(o, "bit_rate")) \o "M">>,
           <<"--max-fps=", ToString(Get(o, "max_fps"))>>  >>
    \o When(Get(o, "max_size") # "Device Native",
            <<"--max-size=", Get(o, "max_size")>>)

\* Lines 520-532: the camera tokens, or else the screen tokens.
mode_tokens(o) ==
    IF Get(o, "mirror_camera")
    THEN <<  <<"--video-source=camera", "">>,
             <<"--camera-facing=", Get(o, "camera_facing")>>  >>
         \o When(Get(o, "camera_size") # "Default",
                 <<"--camera-size=", strip(Get(o, "camera_size"))>>)
         \o When(\E m \in orientation_map : m[1] = Get(o, "camera_orientation"),
                 <<"--capture-orientation=",
                   (CHOOSE m \in orientation_map :
                       m[1] = Get(o, "camera_orientation"))[2]>>)
    ELSE <<  <<"--video-bit-rate=", ToString(Get(o, "bit_rate")) \o "M">>,
             <<"--max-fps=", ToString(Get(o, "max_fps"))>>  >>
         \o When(Get(o, "max_size") # "Device Native",
                 <<"--max-size=", Get(o, "max_size")>>)

\* Mutant: an if/elif chain, so only the first checked box gives its flag.
flag_tokens_elif(o) ==
    IF Get(o, "fullscreen") THEN << <<"--fullscreen", "">> >>
    ELSE IF Get(o, "always_on_top") THEN << <<"--always-on-top", "">> >>
    ELSE IF Get(o, "show_touches") THEN << <<"--show-touches", "">> >>
    ELSE IF Get(o, "turn_screen_off") THEN << <<"--turn-screen-off", "">> >>
    ELSE When(Get(o, "stay_awake"), <<"--stay-awake", "">>)

\* Lines 534-538: the five bare flags.
flag_tokens(o) ==
       When(Get(o, "fullscreen"),      <<"--fullscreen", "">>)
    \o When(Get(o, "always_on_top"),   <<"--always-on-top", "">>)
    \o When(Get(o, "show_touches"),    <<"--show-touches", "">>)
    \o When(Get(o, "turn_screen_off"), <<"--turn-screen-off", "">>)
    \o When(Get(o, "stay_awake"),      <<"--stay-awake", "">>)

\* Mutant: the bit rate is passed whenever audio is forwarded, default or not.
audio_tokens_always_rate(o) ==
    IF ~Get(o, "audio_forward")
    THEN << <<"--no-audio", "">> >>
    ELSE << <<"--audio-bit-rate=", Get(o, "audio_bit_rate") \o "k">> >>

\* Lines 540-543.
audio_tokens(o) ==
    IF ~Get(o, "audio_forward")
    THEN << <<"--no-audio", "">> >>
    ELSE When(Get(o, "audio_bit_rate") # default_audio_bit_rate,
              <<"--audio-bit-rate=", Get(o, "audio_bit_rate") \o "k">>)

\* Lines 545-551.
tail_tokens(o) ==
       When(Get(o, "record_screen") /\ strip(Get(o, "record_file_path")) # "",
            <<"--record=\"", strip(Get(o, "record_file_path")) \o "\"">>)
    \o When(Get(o, "video_codec") # "Default",
            <<"--video-codec=", Get(o, "video_codec")>>)
    \o When(Get(o, "audio_codec") # "Default",
            <<"--audio-codec=", Get(o, "audio_codec")>>)
    \o When(Get(o, "video_buffer") > 0,
            <<"--video-buffer=", ToString(Get(o, "video_buffer"))>>)
    \o When(strip(Get(o, "v4l2_sink_path")) # "",
            <<"--v4l2-sink=", strip(Get(o, "v4l2_sink_path"))>>)

\* Mutant: the audio block is moved above the five flags.
command_tokens_audio_first(o) ==
    << <<"\"", Get(o, "scrcpy_path") \o "\"">> >>
    \o mode_tokens(o) \o audio_tokens(o) \o flag_tokens(o) \o tail_tokens(o)

\* The whole token list of lines 518-553, as <<flag, argument>> pairs.
command_tokens(o) ==
    << <<"\"", Get(o, "scrcpy_path") \o "\"">> >>
    \o mode_tokens(o) \o flag_tokens(o) \o audio_tokens(o) \o tail_tokens(o)

\* An IntVar the builder reads holds no number: its get() raises TclError.
build_raises(o) ==
    \/ ~Get(o, "mirror_camera") /\ ~(GetOk(o, "bit_rate") /\ GetOk(o, "max_fps"))
    \/ ~GetOk(o, "video_buffer")

\* What a call returns: None, a list of tokens, or an exception.
None          == [kind |-> "None",  tokens |-> <<>>]
List(toks)    == [kind |-> "list",  tokens |-> toks]
Raised        == [kind |-> "raise", tokens |-> <<>>]

\* Mutant: no early return for an unset path.
build_without_path_check(o) ==
    IF build_raises(o) THEN Raised ELSE List(command_tokens(o))

_build_scrcpy_command(o) ==
    IF Get(o, "scrcpy_path") = "" THEN None
    ELSE IF build_raises(o) THEN Raised
    ELSE List(command_tokens(o))

\* The strings of a returned list, and " ".join(command_list).
texts(toks) == [i \in 1..Len(toks) |-> Text(toks[i])]
RECURSIVE join(_)
join(toks) == IF Len(toks) = 0 THEN ""
              ELSE IF Len(toks) = 1 THEN Text(toks[1])
              ELSE Text(toks[1]) \o " " \o join(Tail(toks))

----------------------------------------------------------------------------
(* The settings file, save_settings and load_settings *)

\* The file is absent, unreadable (open() fails with another OSError),
\* garbage (empty or no JSON: json.load raises JSONDecodeError), a JSON
\* document that is no object, or a JSON object: its members in file order.
Absent     == [kind |-> "absent",     items |-> <<>>]
Unreadable == [kind |-> "unreadable", items |-> <<>>]
Garbage    == [kind |-> "garbage",    items |-> <<>>]
NonObject  == [kind |-> "nonobject",  items |-> <<>>]
Object(ms) == [kind |-> "object",     items |-> ms]

NotSaved   == [ok |-> FALSE, opt |-> Defaults]
SavedAs(o) == [ok |-> TRUE,  opt |-> o]

\* dir(self) lists the attribute names in sorted order.
SortedKeys ==
    <<"always_on_top", "audio_bit_rate", "audio_codec", "audio_forward",
      "bit_rate", "camera_facing", "camera_orientation", "camera_size",
      "dark_mode", "fullscreen", "generated_command", "max_fps", "max_size",
      "mirror_camera", "record_file_path", "record_screen", "scrcpy_path",
      "show_touches", "stay_awake", "turn_screen_off", "v4l2_sink_path",
      "video_buffer", "video_codec">>

\* Attributes of the window that are no tk.Variable (hasattr is true of them).
OtherAttributes == {"title", "settings_file"}
hasattr(k)      == k \in Keys \cup OtherAttributes
IsVariable(k)   == k \in Keys

\* Lines 581-585: {var_name: getattr(self, var_name).get() ...}; a get() that
\* raises leaves save_settings before the try.
save_raises(o)      == \E k \in Keys : ~GetOk(o, k)
\* Mutant: the variables are filtered by class and the IntVars are left out.
settings_no_ints(o) ==
    LET ks == SelectSeq(SortedKeys, LAMBDA k : k \notin IntKeys)
    IN  [i \in 1..Len(ks) |-> <<ks[i], VarGet(KindOf(ks[i]), o[ks[i]]).val>>]

settings_to_save(o) ==
    [i \in 1..Len(SortedKeys) |->
        <<SortedKeys[i], VarGet(KindOf(SortedKeys[i]), o[SortedKeys[i]]).val>>]

\* Mutant: no hasattr / isinstance test, a member with an unknown key is set
\* as a new attribute.
RECURSIVE load_items_unchecked(_, _)
load_items_unchecked(o, items) ==
    IF items = <<>> THEN [opt |-> o, err |-> "none"]
    ELSE LET k == Head(items)[1]
             v == Head(items)[2]
             r == VarSet(KindOf(k), v)
         IN  IF k \in Keys
             THEN IF r.ok
                  THEN load_items_unchecked([o EXCEPT ![k] = r.val], Tail(items))
                  ELSE [opt |-> o, err |-> r.err]
             ELSE load_items_unchecked(
                     [x \in DOMAIN o \cup {k} |-> IF x = k THEN v ELSE o[x]],
                     Tail(items))

\* Lines 597-601: the loop over settings.items(); it stops at the first
\* set() that raises, with the earlier members already written.
RECURSIVE load_items(_, _)
load_items(o, items) ==
    IF items = <<>> THEN [opt |-> o, err |-> "none"]
    ELSE LET k == Head(items)[1]
             v == Head(items)[2]
             r == VarSet(KindOf(k), v)
         IN  IF hasattr(k) /\ IsVariable(k)
             THEN IF r.ok
                  THEN load_items([o EXCEPT ![k] = r.val], Tail(items))
                  ELSE [opt |-> o, err |-> r.err]
             ELSE load_items(o, Tail(items))

\* Line 602: the exceptions load_settings swallows.
Caught == {"FileNotFoundError", "JSONDecodeError", "TypeError"}

\* The try block of lines 594-601: the Option Set it leaves and the
\* exception raised in it ("none" if none).
load_try(o, f) ==
    CASE f.kind = "absent"     -> [opt |-> o, err |-> "FileNotFoundError"]
      [] f.kind = "unreadable" -> [opt |-> o, err |-> "PermissionError"]
      [] f.kind = "garbage"    -> [opt |-> o, err |-> "JSONDecodeError"]
      [] f.kind = "nonobject"  -> [opt |-> o, err |-> "AttributeError"]
      [] OTHER                 -> load_items(o, f.items)

\* load_settings: the Option Set afterwards and the exception that leaves it.
load_settings(o, f) ==
    [opt |-> load_try(o, f).opt,
     exc |-> IF load_try(o, f).err \in Caught THEN "none" ELSE load_try(o, f).err]

----------------------------------------------------------------------------
(* The builder on its own: BuildSpec draws an Option Set and builds once *)

MaxChanged == 2

Paths == {"", "/usr/bin/scrcpy"}

\* The checkboxes taken in every combination.
Switches == {"mirror_camera", "fullscreen", "always_on_top", "show_touches",
             "turn_screen_off", "stay_awake"}

\* Values other than the default that the widgets (or a settings file
\* loaded at startup) put into the remaining variables.
Alternatives ==
    {<<"bit_rate", JInt(20)>>, <<"max_fps", JInt(30)>>,
     <<"max_size", JStr("Device Native")>>,
     <<"camera_facing", JStr("front")>>,
     <<"camera_size", JStr("1920x1080")>>, <<"camera_size", JStr(" 640x480 ")>>,
     <<"camera_orientation", JStr("0°")>>, <<"camera_orientation", JStr("90°")>>,
     <<"camera_orientation", JStr("180°")>>, <<"camera_orientation", JStr("270°")>>,
     <<"camera_orientation", JStr("45°")>>,
     <<"audio_forward", JBool(FALSE)>>, <<"audio_bit_rate", JStr("256")>>,
     <<"record_screen", JBool(TRUE)>>,
     <<"record_file_path", JStr(" ")>>, <<"record_file_path", JStr(" out.mp4 ")>>,
     <<"video_codec", JStr("h265")>>, <<"audio_codec", JStr("opus")>>,
     <<"video_buffer", JInt(50)>>,
     <<"v4l2_sink_path", JStr(" ")>>, <<"v4l2_sink_path", JStr("/dev/video0 ")>>,
     <<"dark_mode", JBool(FALSE)>>}

\* The sets of at most n alternatives, no two for the same variable.
RECURSIVE ChangeSets(_)
ChangeSets(n) ==
    IF n = 0 THEN {{}}
    ELSE ChangeSets(n - 1) \cup
         UNION {{S \cup {a} : a \in {b \in Alternatives :
                                          \A c \in S : c[1] # b[1]}} :
                S \in ChangeSets(n - 1)}

Changed(o, S) ==
    [k \in Keys |-> IF \E a \in S : a[1] = k
                    THEN (CHOOSE a \in S : a[1] = k)[2] ELSE o[k]]

Unbuilt == [kind |-> "unbuilt", tokens |-> <<>>]

InitBuild ==
    /\ \E p \in Paths, sw \in [Switches -> BOOLEAN], S \in ChangeSets(MaxChanged) :
          opt = [k \in Keys |->
                   IF k = "scrcpy_path" THEN JStr(p)
                   ELSE IF k \in Switches THEN JBool(sw[k])
                   ELSE Changed(Defaults, S)[k]]
    /\ command = Unbuilt
    /\ file = Absent
    /\ pc = "build"
    /\ exc = "none"
    /\ saved = NotSaved
    /\ button = "disabled"
    /\ edits = 0
    /\ sessions = 0
    /\ text = "Connect"
    /\ pending = 0
    /\ clicked = FALSE
    /\ notice = "none"
    /\ handed = ""

Build ==
    /\ pc = "build"
    /\ command = Unbuilt
    /\ command' = _build_scrcpy_command(opt)
    /\ UNCHANGED <<opt, file, pc, exc, saved, button, edits, sessions,
                   text, pending, clicked, notice, handed>>

BuildSpec == InitBuild /\ [][Build]_vars

----------------------------------------------------------------------------
(* A session: __init__, the widgets, exit; then the next session *)

MaxEdits    == 2
MaxSessions == 2

\* _update_command_preview: the text shown, or the builder's exception.
_update_command_preview(o) ==
    LET r == _build_scrcpy_command(o)
    IN  IF r.kind = "raise" THEN [opt |-> o, exc |-> "TclError"]
        ELSE [opt |-> [o EXCEPT !["generated_command"] =
                          JStr(IF r.kind = "list" /\ Len(r.tokens) > 0
                               THEN join(r.tokens) ELSE placeholder)],
              exc |-> "none"]

\* Settings files a first start may find: none, unreadable, empty or
\* corrupt, JSON that is no object, and objects with well-typed members,
\* unknown keys, and members of the wrong type.
Files ==
    {Absent, Unreadable, Garbage, NonObject,
     Object(<<>>),
     Object(<< <<"scrcpy_path", JStr("/usr/bin/scrcpy")>>,
               <<"fullscreen", JBool(TRUE)>> >>),
     Object(<< <<"schema_version", JInt(2)>>, <<"bit_rate", JInt(20)>>,
               <<"title", JStr("x")>>, <<"mirror_camera", JBool(TRUE)>> >>),
     Object(<< <<"bit_rate", JInt(20)>>, <<"fullscreen", JNull>>,
               <<"max_fps", JInt(30)>> >>),
     Object(<< <<"max_fps", JInt(30)>>, <<"stay_awake", JStr("abc")>> >>),
     Object(<< <<"bit_rate", JStr("abc")>> >>),
     Object(<< <<"scrcpy_path", JStr("/usr/bin/scrcpy")>>,
               <<"video_buffer", JStr("abc")>> >>),
     Object(<< <<"max_size", JInt(720)>>, <<"audio_forward", JInt(0)>> >>)}

\* What the widgets write in a session: checkboxes either way, and a
\* value other than the default for sliders, comboboxes and entries.
WidgetChoices ==
    {<<"mirror_camera", JBool(TRUE)>>, <<"mirror_camera", JBool(FALSE)>>,
     <<"fullscreen", JBool(TRUE)>>, <<"fullscreen", JBool(FALSE)>>,
     <<"stay_awake", JBool(TRUE)>>, <<"audio_forward", JBool(FALSE)>>,
     <<"audio_bit_rate", JStr("256")>>, <<"record_screen", JBool(TRUE)>>,
     <<"record_file_path", JStr(" out.mp4 ")>>, <<"bit_rate", JInt(20)>>,
     <<"bit_rate", JInt(default_bit_rate)>>,
     <<"camera_orientation", JStr("90°")>>,
     <<"camera_size", JStr(" 640x480 ")>>,
     <<"max_size", JStr("Device Native")>>, <<"video_buffer", JInt(50)>>,
     <<"v4l2_sink_path", JStr("/dev/video0 ")>>, <<"dark_mode", JBool(FALSE)>>}

Init ==
    /\ opt = Defaults
    /\ command = Unbuilt
    /\ file \in Files
    /\ pc = "init"
    /\ exc = "none"
    /\ saved = NotSaved
    /\ button = "disabled"
    /\ edits = 0
    /\ sessions = 1
    /\ text = "Connect"
    /\ pending = 0
    /\ clicked = FALSE
    /\ notice = "none"
    /\ handed = ""

\* __init__, line 106: load_settings on the freshly initialised variables.
LoadSettings ==
    /\ pc = "init"
    /\ opt' = load_settings(opt, file).opt
    /\ exc' = load_settings(opt, file).exc
    /\ pc' = IF load_settings(opt, file).exc = "none" THEN "loaded" ELSE "crashed"
    /\ UNCHANGED <<command, file, saved, button, edits, sessions,
                   text, pending, clicked, notice, handed>>

\* __init__, lines 108-114: the widgets (Connect starts disabled), then
\* _update_ui_from_loaded_settings; an exception here ends the program.
FinishInit ==
    /\ pc = "loaded"
    /\ LET r == _update_command_preview(opt)
       IN  /\ opt' = r.opt
           /\ exc' = r.exc
           /\ pc' = IF r.exc = "none" THEN "running" ELSE "crashed"
           /\ button' = IF r.exc = "none" /\ Get(opt, "scrcpy_path") # ""
                        THEN "normal" ELSE "disabled"
    /\ UNCHANGED <<command, file, saved, edits, sessions,
                   text, pending, clicked, notice, handed>>

\* A widget writes its variable; the write trace of line 442 runs
\* _update_command_preview (Tk reports an exception raised in a callback).
SetOption ==
    /\ pc = "running"
    /\ edits < MaxEdits
    /\ \E c \in WidgetChoices :
          /\ opt[c[1]] # c[2]
          /\ LET r == _update_command_preview([opt EXCEPT ![c[1]] = c[2]])
             IN  opt' = r.opt /\ exc' = r.exc
    /\ edits' = edits + 1
    /\ clicked' = FALSE
    /\ notice' = "none"
    /\ handed' = ""
    /\ UNCHANGED <<command, file, pc, saved, button, sessions,
                   text, pending>>

\* The same handler without the test of line 460.
browse_without_check(o, b, p) ==
    LET r == _update_command_preview([o EXCEPT !["scrcpy_path"] = JStr(p)])
    IN  [opt |-> r.opt, exc |-> r.exc, button |-> "normal"]

\* _browse_for_scrcpy, given the button's state b and the dialog's answer
\* p ("" when cancelled): the path is written, the button enabled, the
\* preview refreshed (an exception of the refresh leaves the handler after
\* the button was enabled).
_browse_for_scrcpy(o, b, p) ==
    IF p = "" THEN [opt |-> o, exc |-> "none", button |-> b]
    ELSE LET r == _update_command_preview(
                     [o EXCEPT !["scrcpy_path"] = JStr(p)])
         IN  [opt |-> r.opt, exc |-> r.exc, button |-> "normal"]

\* The same handler with the timer of line 573 armed on the early return
\* of line 560 too.
launch_finally_covers_return(o, b, t, starts) ==
    LET r == _build_scrcpy_command(o)
    IN  IF r.kind = "raise"
        THEN [exc |-> "TclError", button |-> b, text |-> t, timers |-> 0,
              notice |-> "none", handed |-> ""]
        ELSE IF r.kind = "None" \/ Len(r.tokens) = 0
        THEN [exc |-> "none", button |-> b, text |-> t, timers |-> 1,
              notice |-> "Error", handed |-> ""]
        ELSE [exc |-> "none", button |-> "disabled",
              text |-> "Connecting...", timers |-> 1,
              notice |-> IF starts THEN "none" ELSE "Execution Error",
              handed |-> join(r.tokens)]

\* _launch_scrcpy, given the button's state b and label t and whether
\* Popen starts the process: an exception of the builder leaves the
\* handler at line 557; without a command an error box is shown and the
\* handler returns; otherwise the button is disabled and relabelled, the
\* joined command is handed to Popen once, a failure of Popen is shown in
\* an error box, and one timer for _reset_connect_button is armed.
_launch_scrcpy(o, b, t, starts) ==
    LET r == _build_scrcpy_command(o)
    IN  IF r.kind = "raise"
        THEN [exc |-> "TclError", button |-> b, text |-> t, timers |-> 0,
              notice |-> "none", handed |-> ""]
        ELSE IF r.kind = "None" \/ Len(r.tokens) = 0
        THEN [exc |-> "none", button |-> b, text |-> t, timers |-> 0,
              notice |-> "Error", handed |-> ""]
        ELSE [exc |-> "none", button |-> "disabled",
              text |-> "Connecting...", timers |-> 1,
              notice |-> IF starts THEN "none" ELSE "Execution Error",
              handed |-> join(r.tokens)]

\* _reset_connect_button: the state and the label the button gets.
_reset_connect_button == [button |-> "normal", text |-> "Connect"]

\* The Browse button: the dialog returns a path, or "" when cancelled.
Browse ==
    /\ pc = "running"
    /\ \E p \in Paths :
          LET r == _browse_for_scrcpy(opt, button, p)
          IN  opt' = r.opt /\ exc' = r.exc /\ button' = r.button
    /\ clicked' = FALSE
    /\ notice' = "none"
    /\ handed' = ""
    /\ UNCHANGED <<command, file, pc, saved, edits, sessions,
                   text, pending>>

\* A click on Connect (a disabled button runs no command): the whole of
\* _launch_scrcpy, with either outcome of Popen.
Launch ==
    /\ pc = "running"
    /\ button = "normal"
    /\ edits < MaxEdits
    /\ \E starts \in BOOLEAN :
          LET r == _launch_scrcpy(opt, button, text, starts)
          IN  /\ exc' = r.exc
              /\ button' = r.button
              /\ text' = r.text
              /\ pending' = pending + r.timers
              /\ notice' = r.notice
              /\ handed' = r.handed
    /\ edits' = edits + 1
    /\ clicked' = TRUE
    /\ UNCHANGED <<opt, command, file, pc, saved, sessions>>

\* A timer armed at line 573 fires: _reset_connect_button.
ResetConnectButton ==
    /\ pc = "running"
    /\ pending > 0
    /\ pending' = pending - 1
    /\ button' = _reset_connect_button.button
    /\ text' = _reset_connect_button.text
    /\ exc' = "none"
    /\ clicked' = FALSE
    /\ notice' = "none"
    /\ handed' = ""
    /\ UNCHANGED <<opt, command, file, pc, saved, edits, sessions>>

\* save_settings, registered with atexit: a get() that raises leaves it
\* before the file is opened; an IOError of open() or of the write is
\* printed and swallowed (the file then is as it was, or cut short).
\* The window is closed by then: its timers are dropped, and nothing is
\* left to click until the next session builds the button anew.
SaveSettings ==
    /\ pc = "running"
    /\ pc' = "exited"
    /\ IF save_raises(opt)
       THEN exc' = "TclError" /\ UNCHANGED <<file, saved>>
       ELSE /\ exc' = "none"
            /\ \/ file' = Object(settings_to_save(opt)) /\ saved' = SavedAs(opt)
               \/ UNCHANGED <<file, saved>>
               \/ file' = Garbage /\ saved' = NotSaved
    /\ button' = "disabled"
    /\ text' = "Connect"
    /\ pending' = 0
    /\ clicked' = FALSE
    /\ notice' = "none"
    /\ handed' = ""
    /\ UNCHANGED <<opt, command, edits, sessions>>

\* The program is started again: _initialize_variables.
NewSession ==
    /\ pc = "exited"
    /\ sessions < MaxSessions
    /\ opt' = Defaults
    /\ pc' = "init"
    /\ exc' = "none"
    /\ sessions' = sessions + 1
    /\ UNCHANGED <<command, file, saved, button, edits, text, pending,
                   clicked, notice, handed>>

Next == LoadSettings \/ FinishInit \/ SetOption \/ Browse \/ Launch
        \/ ResetConnectButton \/ SaveSettings \/ NewSession

Spec == Init /\ [][Next]_vars

----------------------------------------------------------------------------
(* _launch_scrcpy called as a method, whatever the button's state *)

\* A running window before the call: the button as startup and browsing
\* leave it for the path held, no timer armed.
InitLaunch ==
    /\ \E p \in Paths, S \in ChangeSets(MaxChanged) :
          /\ opt = [Changed(Defaults, S) EXCEPT !["scrcpy_path"] = JStr(p)]
          /\ button = IF p = "" THEN "disabled" ELSE "normal"
    /\ command = Unbuilt
    /\ file = Absent
    /\ pc = "call"
    /\ exc = "none"
    /\ saved = NotSaved
    /\ edits = 0
    /\ sessions = 1
    /\ text = "Connect"
    /\ pending = 0
    /\ clicked = FALSE
    /\ notice = "none"
    /\ handed = ""

LaunchRequest ==
    /\ pc = "call"
    /\ pc' = "called"
    /\ \E starts \in BOOLEAN :
          LET r == _launch_scrcpy(opt, button, text, starts)
          IN  /\ exc' = r.exc
              /\ button' = r.button
              /\ text' = r.text
              /\ pending' = pending + r.timers
              /\ notice' = r.notice
              /\ handed' = r.handed
    /\ clicked' = TRUE
    /\ UNCHANGED <<opt, command, file, saved, edits, sessions>>

LaunchSpec == InitLaunch /\ [][LaunchRequest]_vars

----------------------------------------------------------------------------
(* Claims about the builder (BuildSpec) *)

Built     == command.kind # "unbuilt"
Path      == Get(opt, "scrcpy_path")
HasText(s) == \E i \in 1..Len(command.tokens) : Text(command.tokens[i]) = s
HasFlag(f) == \E i \in 1..Len(command.tokens) : command.tokens[i][1] = f
CountText(s) ==
    Cardinality({i \in 1..Len(command.tokens) : Text(command.tokens[i]) = s})

\* C1: the builder returns None exactly when the executable path is empty;
\* otherwise it returns a non-empty list whose first token is the path in
\* double quotes.
C1_NoneIffNoPath ==
    Built =>
        /\ (command.kind = "None") <=> (Path = "")
        /\ Path # "" =>
              /\ command.kind = "list"
              /\ Len(command.tokens) >= 1
              /\ Text(command.tokens[1]) = "\"" \o Path \o "\""

C1_Witness ==
    /\ command.kind = "list"
    /\ Path = "/usr/bin/scrcpy"
    /\ Text(command.tokens[1]) = "\"/usr/bin/scrcpy\""

\* Rules 1-9 of section 4.1 of the specification, written out as strings.
Rule1to2(o) ==
    IF o["mirror_camera"][2]
    THEN <<"--video-source=camera", "--camera-facing=" \o o["camera_facing"][2]>>
         \o (IF o["camera_size"][2] # "Default"
             THEN <<"--camera-size=" \o strip(o["camera_size"][2])>> ELSE <<>>)
         \o (CASE o["camera_orientation"][2] = "0°"   -> <<"--capture-orientation=0">>
               [] o["camera_orientation"][2] = "90°"  -> <<"--capture-orientation=1">>
               [] o["camera_orientation"][2] = "180°" -> <<"--capture-orientation=2">>
               [] o["camera_orientation"][2] = "270°" -> <<"--capture-orientation=3">>
               [] OTHER -> <<>>)
    ELSE <<"--video-bit-rate=" \o ToString(o["bit_rate"][2]) \o "M",
           "--max-fps=" \o ToString(o["max_fps"][2])>>
         \o (IF o["max_size"][2] # "Device Native"
             THEN <<"--max-size=" \o o["max_size"][2]>> ELSE <<>>)
Rule3(o) ==
       (IF o["fullscreen"][2] THEN <<"--fullscreen">> ELSE <<>>)
    \o (IF o["always_on_top"][2] THEN <<"--always-on-top">> ELSE <<>>)
    \o (IF o["show_touches"][2] THEN <<"--show-touches">> ELSE <<>>)
    \o (IF o["turn_screen_off"][2] THEN <<"--turn-screen-off">> ELSE <<>>)
    \o (IF o["stay_awake"][2] THEN <<"--stay-awake">> ELSE <<>>)
Rule4(o) ==
    IF ~o["audio_forward"][2] THEN <<"--no-audio">>
    ELSE IF o["audio_bit_rate"][2] # "128"
         THEN <<"--audio-bit-rate=" \o o["audio_bit_rate"][2] \o "k">> ELSE <<>>
Rule5to9(o) ==
       (IF o["record_screen"][2] /\ strip(o["record_file_path"][2]) # ""
        THEN <<"--record=\"" \o strip(o["record_file_path"][2]) \o "\"">> ELSE <<>>)
    \o (IF o["video_codec"][2] # "Default"
        THEN <<"--video-codec=" \o o["video_codec"][2]>> ELSE <<>>)
    \o (IF o["audio_codec"][2] # "Default"
        THEN <<"--audio-codec=" \o o["audio_codec"][2]>> ELSE <<>>)
    \o (IF o["video_buffer"][2] > 0
        THEN <<"--video-buffer=" \o ToString(o["video_buffer"][2])>> ELSE <<>>)
    \o (IF strip(o["v4l2_sink_path"][2]) # ""
        THEN <<"--v4l2-sink=" \o strip(o["v4l2_sink_path"][2])>> ELSE <<>>)

\* The scenario of section 8: the defaults (bit rate 8, 60 fps, "1080", the
\* checkboxes off, audio forwarded at "128") with the path set.
Scenario ==
    [Defaults EXCEPT !["scrcpy_path"] = JStr("/usr/bin/scrcpy")]

\* C2: with a path, the output is the quoted path followed by the tokens of
\* rules 1-9 in that order, nothing added, dropped or moved; the scenario
\* of section 8 gives exactly its four tokens.
C2_RulesInOrder ==
    (Built /\ Path # "") =>
        /\ command.kind = "list"
        /\ texts(command.tokens) =
              <<"\"" \o Path \o "\"">> \o Rule1to2(opt) \o Rule3(opt)
              \o Rule4(opt) \o Rule5to9(opt)
        /\ (\A k \in Keys \ {"dark_mode"} : opt[k] = Scenario[k]) =>
              texts(command.tokens) =
                 <<"\"/usr/bin/scrcpy\"", "--video-bit-rate=8M", "--max-fps=60",
                   "--max-size=1080">>

\* The scenario's command, built.
C2_WitnessScenario ==
    /\ command.kind = "list"
    /\ \A k \in Keys \ {"dark_mode"} : opt[k] = Scenario[k]

\* A command with flags, an audio token and a tail token after the mode
\* tokens, so that every boundary between rule groups is on show.
C2_Witness ==
    /\ command.kind = "list"
    /\ HasText("--stay-awake") /\ HasText("--fullscreen")
    /\ HasText("--no-audio") /\ HasFlag("--video-buffer=")
    /\ Len(command.tokens) >= 7

ScreenFlags == {"--video-bit-rate=", "--max-fps=", "--max-size="}

\* C3: --video-source=camera never comes with a --video-bit-rate=, --max-fps=
\* or --max-size= token, and with a path exactly one of the two groups is
\* present.
C3_ModesExclusive ==
    (Built /\ Path # "") =>
        /\ ~(HasText("--video-source=camera") /\ \E f \in ScreenFlags : HasFlag(f))
        /\ HasText("--video-source=camera") # HasFlag("--video-bit-rate=")

C3_Witness ==
    /\ command.kind = "list"
    /\ HasText("--video-source=camera")
    /\ Get(opt, "bit_rate") = 20 /\ Get(opt, "max_size") = "Device Native"

OrientationLabels == {<<"0°", "0">>, <<"90°", "1">>, <<"180°", "2">>, <<"270°", "3">>}

\* C4: in camera mode the labels 0, 90, 180, 270 degrees give
\* --capture-orientation=0, 1, 2, 3; any other label gives no
\* --capture-orientation token and no error; camera on, front, size Default,
\* 180 degrees gives the three expected tokens and no --camera-size=.
C4_OrientationExact ==
    (Built /\ Path # "" /\ Get(opt, "mirror_camera")) =>
        /\ command.kind = "list"
        /\ \A m \in OrientationLabels :
              Get(opt, "camera_orientation") = m[1] =>
                 /\ HasText("--capture-orientation=" \o m[2])
                 /\ Cardinality({i \in 1..Len(command.tokens) :
                        command.tokens[i][1] = "--capture-orientation="}) = 1
        /\ (\A m \in OrientationLabels : Get(opt, "camera_orientation") # m[1])
              => ~HasFlag("--capture-orientation=")
        /\ ( /\ Get(opt, "camera_facing") = "front"
             /\ Get(opt, "camera_size") = "Default"
             /\ Get(opt, "camera_orientation") = "180°" )
              => /\ HasText("--video-source=camera")
                 /\ HasText("--camera-facing=front")
                 /\ HasText("--capture-orientation=2")
                 /\ ~HasFlag("--camera-size=")

C4_Witness ==
    /\ command.kind = "list"
    /\ Get(opt, "mirror_camera")
    /\ Get(opt, "camera_facing") = "front"
    /\ Get(opt, "camera_size") = "Default"
    /\ Get(opt, "camera_orientation") = "180°"
    /\ HasText("--capture-orientation=2")

C4_WitnessUnknown ==
    /\ command.kind = "list"
    /\ Get(opt, "mirror_camera")
    /\ Get(opt, "camera_orientation") = "45°"

\* C5: audio-forward off gives exactly one --no-audio and no
\* --audio-bit-rate=; on with bit rate "128" gives neither; on with another
\* bit rate V gives --audio-bit-rate=Vk and no --no-audio.
C5_AudioThreeWay ==
    (Built /\ Path # "") =>
        /\ ~Get(opt, "audio_forward") =>
              CountText("--no-audio") = 1 /\ ~HasFlag("--audio-bit-rate=")
        /\ (Get(opt, "audio_forward") /\ Get(opt, "audio_bit_rate") = "128") =>
              ~HasText("--no-audio") /\ ~HasFlag("--audio-bit-rate=")
        /\ (Get(opt, "audio_forward") /\ Get(opt, "audio_bit_rate") # "128") =>
              /\ HasText("--audio-bit-rate=" \o Get(opt, "audio_bit_rate") \o "k")
              /\ ~HasText("--no-audio")

C5_Witness ==
    /\ command.kind = "list"
    /\ Get(opt, "audio_forward")
    /\ HasText("--audio-bit-rate=256k")

FlagOf == {<<"fullscreen", "--fullscreen">>, <<"always_on_top", "--always-on-top">>,
           <<"show_touches", "--show-touches">>,
           <<"turn_screen_off", "--turn-screen-off">>,
           <<"stay_awake", "--stay-awake">>}

\* C6: each of the five bare flags is in the output exactly when its boolean
\* is true, whatever the other four are and whichever mode is selected.
C6_FlagsIndependent ==
    (Built /\ Path # "") =>
        \A f \in FlagOf : HasText(f[2]) <=> Get(opt, f[1])

C6_Witness ==
    /\ command.kind = "list"
    /\ Get(opt, "mirror_camera")
    /\ ~Get(opt, "fullscreen") /\ Get(opt, "always_on_top")
    /\ ~Get(opt, "show_touches") /\ Get(opt, "turn_screen_off")
    /\ Get(opt, "stay_awake")
    /\ HasText("--stay-awake") /\ ~HasText("--fullscreen")

----------------------------------------------------------------------------
(* Claims about the settings store (Spec) *)

\* The type a variable's class stands for, and a file's members.
TypeOf(k)     == IF k \in BoolKeys THEN "bool"
                 ELSE IF k \in IntKeys THEN "int" ELSE "str"
InFile(f, k)  == \E i \in 1..Len(f.items) : f.items[i][1] = k
ValueIn(f, k) == f.items[CHOOSE i \in 1..Len(f.items) : f.items[i][1] = k][2]
Mistyped(f)   == \E i \in 1..Len(f.items) :
                    /\ f.items[i][1] \in Keys
                    /\ f.items[i][2][1] # TypeOf(f.items[i][1])
AfterLoad     == pc \in {"loaded", "crashed"}

\* C7: a well-typed Option Set that was saved is, after load_settings into
\* fresh defaults, restored in every field; a load from a file that does not
\* exist leaves the defaults.
C7_RoundTrip ==
    /\ (AfterLoad /\ saved.ok /\ WellTyped(saved.opt)) =>
          pc = "loaded" /\ exc = "none" /\ opt = saved.opt
    /\ (AfterLoad /\ file.kind = "absent") =>
          pc = "loaded" /\ exc = "none" /\ opt = Defaults

C7_Witness ==
    /\ pc = "loaded" /\ sessions = 2
    /\ saved.ok /\ WellTyped(saved.opt)
    /\ opt = saved.opt
    /\ Get(opt, "scrcpy_path") = "/usr/bin/scrcpy"
    /\ Get(opt, "bit_rate") = 20
    /\ Get(opt, "mirror_camera")
    /\ Get(opt, "generated_command") # placeholder

C7_WitnessAbsent ==
    pc = "loaded" /\ file.kind = "absent" /\ opt = Defaults

\* C8: if the file is absent, empty, unparsable or holds a key whose value is
\* not of the option's type, every option still has its default after the
\* load.
C8_AllOrNothing ==
    ( /\ AfterLoad
      /\ \/ file.kind \in {"absent", "garbage"}
         \/ file.kind = "object" /\ Mistyped(file) )
    => opt = Defaults

\* C9: on a successful load the options whose key is in the file hold the
\* file's value, every other option holds its default, and a key that is no
\* option creates none.
C9_ExactlyFileKeys ==
    (pc = "loaded" /\ file.kind = "object" /\ ~Mistyped(file)) =>
        /\ DOMAIN opt = Keys
        /\ \A k \in Keys :
              opt[k] = IF InFile(file, k) THEN ValueIn(file, k) ELSE Defaults[k]

C9_Witness ==
    /\ pc = "loaded"
    /\ file.kind = "object" /\ ~Mistyped(file)
    /\ InFile(file, "schema_version") /\ InFile(file, "title")
    /\ InFile(file, "bit_rate") /\ opt["bit_rate"] = JInt(20)
    /\ ~InFile(file, "max_fps") /\ opt["max_fps"] = JInt(default_max_fps)

\* C10: whatever the settings file holds, no exception leaves load, save or
\* launch.
C10_NothingPropagates ==
    file.kind \in {"absent", "garbage", "nonobject", "object"} => exc = "none"

----------------------------------------------------------------------------
(* Claims about launching and the Connect button *)

\* C11: a launch requested while the executable path is empty is blocked:
\* the error box is shown, nothing is handed to Popen, no timer is armed,
\* and the button's state and label and the Option Set stay as they were.
C11_BlockedWithoutPath ==
    [][(pc = "call" /\ Path = "") =>
          /\ notice' = "Error"
          /\ handed' = ""
          /\ exc' = "none"
          /\ pending' = pending
          /\ button' = button
          /\ text' = text
          /\ opt' = opt]_vars

C11_Witness ==
    /\ pc = "called"
    /\ clicked
    /\ Path = ""
    /\ notice = "Error"
    /\ pending = 0

\* A step of the session that is a click on Connect.
Click == pc = "running" /\ clicked' /\ edits' = edits + 1

\* C12: every launch attempt with a non-empty path returns normally having
\* disabled the button, relabelled it "Connecting...", handed the command
\* to Popen and armed exactly one timer; a start that fails is shown in
\* the "Execution Error" box.
C12_LaunchDisablesAndArms ==
    [][(Click /\ Path # "") =>
          /\ exc' = "none"
          /\ button' = "disabled"
          /\ text' = "Connecting..."
          /\ pending' = pending + 1
          /\ handed' # ""
          /\ notice' \in {"none", "Execution Error"}]_vars

\* The text the preview shows.
Displayed == Get(opt, "generated_command")

\* C13: in a running window the displayed command is the builder's output
\* for the current options joined with single spaces, or the placeholder
\* when the builder returns None; a string just handed to Popen is that
\* same joined output.
C13_PreviewIsBuilderOutput ==
    pc = "running" =>
        LET r == _build_scrcpy_command(opt)
        IN  /\ r.kind # "raise"
            /\ Displayed = IF r.kind = "list" THEN join(r.tokens)
                           ELSE placeholder
            /\ handed # "" => handed = Displayed

\* C14: the Connect button is enabled only while the executable path is
\* non-empty, and within a session a non-empty path never becomes empty.
C14_EnabledOnlyWithPath ==
    /\ button = "normal" => Path # ""
    /\ [][/\ button' = "normal" => Path' # ""
          /\ (Path # "" /\ pc # "exited") => Path' # ""]_vars

\* Two launches with a browse between them, then the first timer fired.
C14_Witness ==
    /\ pc = "running"
    /\ button = "normal"
    /\ text = "Connect"
    /\ pending = 1
    /\ Path # ""

\* C15: while a timer armed by a launch has not fired the button stays
\* disabled, and never more than one timer is pending.
C15_DisabledUntilReset ==
    pending > 0 => (button = "disabled" /\ pending = 1)

=============================================================================
